---- MODULE Spec2Model ----
(***************************************************************************)
(* Model of the RTSP connection state machine of rtsp-simple-server        *)
(* (src/client.go): the per-connection run loop, handleRequest, close and  *)
(* the registry (clients, publishers) it shares under program.mutex.       *)
(*                                                                         *)
(* Strings that the code takes apart (URL paths, the Transport header)     *)
(* are sequences of one-character strings, so that splitting, prefix       *)
(* tests and integer parsing are computed, not assumed.                    *)
(***************************************************************************)
EXTENDS Integers, Sequences, FiniteSets, TLC

\* ------------------------------------------------------------------ bounds

\* number of TCP connections of a run of SpecThree, whose peers send the
\* requests of a publisher or a reader of one path over UDP
NumClients == 3

\* number of TCP connections accepted during one run of Spec, whose peers
\* send any request
MaxAccepted == 2

\* largest number of medias in an announced SDP
MaxMedias == 2

\* largest interleaved channel a TCP publisher sends a frame on
MaxChannel == 4

\* number of frames of a TCP publisher that a run of SpecTcp records
MaxFrames == 3

Clients == 1..NumClients

\* ------------------------------------------------------------- char strings

Str_RTP_AVP     == <<"R","T","P","/","A","V","P">>
Str_RTP_AVP_UDP == Str_RTP_AVP \o <<"/","U","D","P">>
Str_RTP_AVP_TCP == Str_RTP_AVP \o <<"/","T","C","P">>
Str_unicast     == <<"u","n","i","c","a","s","t">>
Str_mode_record == <<"m","o","d","e","=","r","e","c","o","r","d">>
Str_client_port == <<"c","l","i","e","n","t","_","p","o","r","t">>
Str_interleaved == <<"i","n","t","e","r","l","e","a","v","e","d">>

DigitChars == <<"0","1","2","3","4","5","6","7","8","9">>

\* strings.HasPrefix
HasPrefix(s, prefix) ==
    /\ Len(s) >= Len(prefix)
    /\ SubSeq(s, 1, Len(prefix)) = prefix

\* strings.Index(s, ch) for a one-character separator; -1 when absent
\* (0-based, as in Go)
RECURSIVE IndexFrom(_, _, _)
IndexFrom(s, ch, i) ==
    IF i > Len(s) THEN -1
    ELSE IF s[i] = ch THEN i - 1
    ELSE IndexFrom(s, ch, i + 1)

Index(s, ch) == IndexFrom(s, ch, 1)

\* strings.Split(s, sep) for a one-character separator: always at least one
\* piece, empty pieces kept
RECURSIVE Split(_, _)
Split(s, sep) ==
    LET n == Index(s, sep) IN
    IF n < 0 THEN <<s>>
    ELSE <<SubSeq(s, 1, n)>> \o Split(SubSeq(s, n + 2, Len(s)), sep)

DigitValue(ch) == (CHOOSE i \in 1..10 : DigitChars[i] = ch) - 1

IsDigit(ch) == \E i \in 1..10 : DigitChars[i] = ch

RECURSIVE DigitsValue(_, _)
DigitsValue(s, acc) ==
    IF s = <<>> THEN acc
    ELSE DigitsValue(Tail(s), acc * 10 + DigitValue(Head(s)))

\* strconv.ParseInt(s, 10, 64): [ok, val]; an optional sign, then one or
\* more decimal digits
ParseInt(s) ==
    LET signed == s # <<>> /\ Head(s) \in {"+", "-"}
        body   == IF signed THEN Tail(s) ELSE s
    IN  IF body = <<>> \/ \E i \in 1..Len(body) : ~IsDigit(body[i])
        THEN [ok |-> FALSE, val |-> 0]
        ELSE [ok |-> TRUE,
              val |-> IF signed /\ Head(s) = "-"
                      THEN 0 - DigitsValue(body, 0)
                      ELSE DigitsValue(body, 0)]

\* fmt.Sprintf("%d", n) for n >= 0
RECURSIVE Itoa(_)
Itoa(n) ==
    IF n < 10 THEN <<DigitChars[n + 1]>>
    ELSE Itoa(n \div 10) \o <<DigitChars[(n % 10) + 1]>>

\* fmt.Sprintf("%d-%d", a, b)
FormatPair(a, b) == Itoa(a) \o <<"-">> \o Itoa(b)

\* --------------------------------------------------- interleaved channels

TRACK_FLOW_RTP  == "RTP"
TRACK_FLOW_RTCP == "RTCP"

\* a variant of interleavedChannelToTrack that takes the channel for the
\* track
interleavedChannelToTrackPlain(channel) ==
    [id |-> channel,
     flow |-> IF (channel % 2) = 0 THEN TRACK_FLOW_RTP ELSE TRACK_FLOW_RTCP]

interleavedChannelToTrack(channel) ==
    IF (channel % 2) = 0
    THEN [id |-> channel \div 2, flow |-> TRACK_FLOW_RTP]
    ELSE [id |-> (channel - 1) \div 2, flow |-> TRACK_FLOW_RTCP]

trackToInterleavedChannel(id, flow) ==
    IF flow = TRACK_FLOW_RTP THEN id * 2 ELSE (id * 2) + 1

\* ------------------------------------------------------- transport header

\* the header as the set of its ";"-separated tokens (a Go map used as a set)
newTransportHeader(in) ==
    LET parts == Split(in, ";") IN {parts[i] : i \in 1..Len(parts)}

\* getKeyValue ranges over a map: with several tokens carrying the key any of
\* them may be returned, so this is the set of values the call can return
getKeyValue(th, key) ==
    LET prefix == key \o <<"=">>
        hits   == {t \in th : HasPrefix(t, prefix)}
    IN  IF hits = {} THEN {<<>>}
        ELSE {SubSeq(t, Len(prefix) + 1, Len(t)) : t \in hits}

\* getClientPorts for one returned value of getKeyValue("client_port")
clientPortsOf(val) ==
    IF val = <<>> THEN <<0, 0>>
    ELSE LET ports == Split(val, "-") IN
         IF Len(ports) # 2 THEN <<0, 0>>
         ELSE LET p1 == ParseInt(ports[1])
                  p2 == ParseInt(ports[2])
              IN  IF ~p1.ok THEN <<0, 0>>
                  ELSE IF ~p2.ok THEN <<0, 0>>
                  ELSE <<p1.val, p2.val>>

getClientPorts(th) == {clientPortsOf(v) : v \in getKeyValue(th, Str_client_port)}

\* ------------------------------------------------------------ URL to path

\* the closure of handleRequest that derives the path from ur.Path
ExtractPath(urPath) ==
    LET ret1 == IF Len(urPath) > 1 THEN Tail(urPath) ELSE urPath
        n    == Index(ret1, "/")
    IN  IF n >= 0 THEN SubSeq(ret1, 1, n) ELSE ret1

\* ------------------------------------------------------------ URL query

Str_key == <<"k","e","y">>

HexChars == <<"0","1","2","3","4","5","6","7","8","9",
              "a","b","c","d","e","f">>

IsHex(ch) == \E i \in 1..16 : HexChars[i] = ch

HexValue(ch) == (CHOOSE i \in 1..16 : HexChars[i] = ch) - 1

\* the character of a byte value, for the bytes the queries of the model
\* escape
ByteChar(b) ==
    CASE b = 107 -> "k"
      [] b = 120 -> "x"
      [] OTHER   -> "?"

\* url.QueryUnescape(s): [ok, val]; "%" must be followed by two hex digits,
\* "+" stands for a space
RECURSIVE QueryUnescape(_)
QueryUnescape(s) ==
    IF s = <<>> THEN [ok |-> TRUE, val |-> <<>>]
    ELSE IF s[1] = "%" THEN
        IF Len(s) < 3 \/ ~IsHex(s[2]) \/ ~IsHex(s[3])
        THEN [ok |-> FALSE, val |-> <<>>]
        ELSE LET rest == QueryUnescape(SubSeq(s, 4, Len(s))) IN
             [ok  |-> rest.ok,
              val |-> <<ByteChar(16 * HexValue(s[2]) + HexValue(s[3]))>>
                          \o rest.val]
    ELSE LET rest == QueryUnescape(Tail(s)) IN
         [ok  |-> rest.ok,
          val |-> <<IF s[1] = "+" THEN " " ELSE s[1]>> \o rest.val]

\* url.ParseQuery(query), then q[key]: [ok, vals], the values of the
\* parameters named key in the order of the query; ok is FALSE when some
\* parameter has a bad escape
RECURSIVE QueryValues(_, _)
QueryValues(pieces, key) ==
    IF pieces = <<>> THEN [ok |-> TRUE, vals |-> <<>>]
    ELSE LET piece == Head(pieces)
             rest  == QueryValues(Tail(pieces), key)
             n     == Index(piece, "=")
             name  == QueryUnescape(IF n < 0 THEN piece
                                    ELSE SubSeq(piece, 1, n))
             value == QueryUnescape(IF n < 0 THEN <<>>
                                    ELSE SubSeq(piece, n + 2, Len(piece)))
         IN  IF piece = <<>> THEN rest
             ELSE IF ~name.ok \/ ~value.ok
                  THEN [ok |-> FALSE, vals |-> rest.vals]
             ELSE IF name.val = key
                  THEN [ok |-> rest.ok, vals |-> <<value.val>> \o rest.vals]
             ELSE rest

ParseQuery(query, key) == QueryValues(Split(query, "&"), key)

\* ------------------------------------------------------------------ state

STREAM_PROTOCOL_UDP == "UDP"
STREAM_PROTOCOL_TCP == "TCP"

\* c.path before any request has bound it
NoPath == <<>>

\* program.publishKey when no key is configured
NoKey == <<>>

\* streamSdpParsed before ANNOUNCE (nil)
NoSdp == [valid |-> FALSE, medias |-> 0, set |-> FALSE]

VARIABLES
    publishKey,   \* program.publishKey: the configured key, fixed at startup
    clients,      \* program.clients: the set of registered connections
    publishers,   \* program.publishers: path -> connection
    pc,           \* where each connection's run goroutine stands
    state,        \* client.state
    path,         \* client.path
    ip,           \* client.ip: whether run has set it
    streamSdp,    \* client.streamSdpText / streamSdpParsed
    streamProtocol,
    streamTracks,
    sockOpen,     \* FALSE once the socket is closed: rconn.Close() has been
                  \* called, or the peer has gone
    res,          \* what handleRequest returned and run still has to write,
                  \* with the method and the CSeq of req
    playAcked,    \* the 200 answer to a PLAY has been written to the peer
    gotFrame,     \* an RTP/RTCP frame has been forwarded to the connection
    frames,       \* the channels of the first frames the ingest loop of a
                  \* TCP publisher has read, in the order of the reads
    forwards      \* the calls of forwardTrack the loop has made for them

vars == <<publishKey, clients, publishers, pc, state, path, ip, streamSdp,
          streamProtocol, streamTracks, sockOpen, res, playAcked, gotFrame,
          frames, forwards>>

connVars == <<state, path, streamSdp, streamProtocol, streamTracks>>

NoRes == [err |-> "none", code |-> 0, cseq |-> FALSE, method |-> "none"]

\* ----------------------------------------------------------------- inputs

UrlRoot   == <<"/">>
UrlCam    == <<"/","c">>
UrlCamSub == <<"/","c","/","t">>

UrlPaths == {UrlRoot, UrlCam, UrlCamSub}

\* an SDP body: whether the decoder accepts it and how many medias it holds
SdpBodies ==
    {[valid |-> TRUE, medias |-> n, set |-> TRUE] : n \in 1..MaxMedias}
    \cup {[valid |-> FALSE, medias |-> 0, set |-> TRUE]}

Semi == <<";">>

PortsGood == Str_client_port \o <<"=","5","0","0","0","-","5","0","0","1">>
PortsZero == Str_client_port \o <<"=","0","-","5","0","0","1">>
PortsOne  == Str_client_port \o <<"=","5","0","0","0">>
Inter01   == Str_interleaved \o <<"=","0","-","1">>
Inter23   == Str_interleaved \o <<"=","2","-","3">>
Inter24   == Str_interleaved \o <<"=","2","-","4">>

\* RTP/AVP;unicast;client_port=5000-5001
TrPlayUdp == Str_RTP_AVP \o Semi \o Str_unicast \o Semi \o PortsGood
\* RTP/AVP/TCP;unicast;interleaved=0-1
TrPlayTcp == Str_RTP_AVP_TCP \o Semi \o Str_unicast \o Semi \o Inter01
\* RTP/AVP;unicast;client_port=5000-5001;mode=record
TrRecordAvp == TrPlayUdp \o Semi \o Str_mode_record
\* RTP/AVP/UDP;unicast;client_port=5000-5001;mode=record
TrRecordUdp ==
    Str_RTP_AVP_UDP \o Semi \o Str_unicast \o Semi \o PortsGood
        \o Semi \o Str_mode_record
\* RTP/AVP/TCP;unicast;interleaved=a-b;mode=record
TrRecordTcp(inter) ==
    Str_RTP_AVP_TCP \o Semi \o Str_unicast \o Semi \o inter
        \o Semi \o Str_mode_record

Transports ==
    { TrPlayUdp, TrPlayTcp, TrRecordAvp, TrRecordUdp,
      TrRecordTcp(Inter01), TrRecordTcp(Inter23), TrRecordTcp(Inter24),
      \* no unicast
      Str_RTP_AVP \o Semi \o PortsGood,
      \* a zero port, a single port, no client_port
      Str_RTP_AVP \o Semi \o Str_unicast \o Semi \o PortsZero,
      Str_RTP_AVP_UDP \o Semi \o Str_unicast \o Semi \o PortsOne
          \o Semi \o Str_mode_record,
      Str_RTP_AVP \o Semi \o Str_unicast,
      \* no interleaved field
      Str_RTP_AVP_TCP \o Semi \o Str_unicast \o Semi \o Str_mode_record,
      \* no protocol
      Str_unicast \o Semi \o Str_mode_record }

Request(m, cs, u, ct, body, hasTr, tr) ==
    [method |-> m, cseq |-> cs, urPath |-> u, query |-> <<>>, ctype |-> ct,
     content |-> body, hasTransport |-> hasTr, transport |-> tr]

\* request r sent to the URL of r with ?q appended
WithQuery(r, q) == [r EXCEPT !.query = q]

NoBody == [valid |-> FALSE, medias |-> 0, set |-> TRUE]

\* a request that carries only its method, its URL and maybe a CSeq
Plain(m, cs, u) == Request(m, cs, u, "absent", NoBody, FALSE, <<>>)

\* the requests a peer sends; a header a method never looks at is left out
Requests ==
    {Plain(m, cs, UrlCam) : m \in {"OPTIONS", "TEARDOWN", "GET_PARAMETER"},
                            cs \in BOOLEAN}
    \cup {Plain(m, TRUE, u) : m \in {"DESCRIBE", "PLAY", "PAUSE", "RECORD"},
                              u \in UrlPaths}
    \cup {Plain(m, FALSE, UrlCam) : m \in {"DESCRIBE", "ANNOUNCE", "SETUP",
                                           "PLAY", "PAUSE", "RECORD"}}
    \cup {Request("ANNOUNCE", TRUE, u, "application/sdp", b, FALSE, <<>>) :
              u \in UrlPaths, b \in SdpBodies}
    \cup {Request("ANNOUNCE", TRUE, UrlCam, ct, b, FALSE, <<>>) :
              ct \in {"absent", "text/plain"},
              b \in {x \in SdpBodies : x.valid}}
    \cup {Request("SETUP", TRUE, u, "absent", NoBody, TRUE, tr) :
              u \in UrlPaths, tr \in Transports}
    \cup {Plain("SETUP", TRUE, UrlCam)}

\* the requests of a publisher or a reader of path c over UDP
CamRequests ==
    {Plain(m, TRUE, UrlCam) : m \in {"PLAY", "RECORD", "TEARDOWN"}}
    \cup {Request("ANNOUNCE", TRUE, UrlCam, "application/sdp", b, FALSE, <<>>) :
              b \in {x \in SdpBodies : x.valid}}
    \cup {Request("SETUP", TRUE, UrlCam, "absent", NoBody, TRUE, tr) :
              tr \in {TrPlayUdp, TrRecordUdp}}

\* the key of a server that is configured with one
PublishKey == <<"k">>

QueryRight   == Str_key \o <<"=","k">>
QueryWrong   == Str_key \o <<"=","x">>
QueryEmpty   == Str_key \o <<"=">>
QueryOther   == <<"x","=","k">>
QueryTwo     == QueryWrong \o <<"&">> \o QueryRight
QueryEscaped == Str_key \o <<"=","%","6","b">>
QueryBad     == QueryRight \o <<"&","x","=","%">>

Queries ==
    {<<>>, QueryRight, QueryWrong, QueryEmpty, QueryOther, QueryTwo,
     QueryEscaped, QueryBad}

\* the requests of a publisher or a reader of path c over UDP, the ANNOUNCE
\* with any query
KeyRequests ==
    {Plain(m, TRUE, UrlCam) : m \in {"OPTIONS", "DESCRIBE", "PLAY", "RECORD",
                                     "TEARDOWN"}}
    \cup {WithQuery(Request("ANNOUNCE", cs, UrlCam, ct, b, FALSE, <<>>), q) :
              cs \in BOOLEAN, ct \in {"application/sdp", "text/plain"},
              b \in SdpBodies, q \in Queries}
    \cup {Request("SETUP", TRUE, UrlCam, "absent", NoBody, TRUE, tr) :
              tr \in {TrPlayUdp, TrRecordUdp}}

\* the requests of a publisher or a reader with a one-media stream, on path c
\* or on the root, over UDP or TCP
LiveRequests ==
    {Plain(m, TRUE, u) : m \in {"PLAY", "RECORD"}, u \in {UrlCam, UrlRoot}}
    \cup {Request("ANNOUNCE", TRUE, u, "application/sdp",
                  [valid |-> TRUE, medias |-> 1, set |-> TRUE], FALSE, <<>>) :
              u \in {UrlCam, UrlRoot}}
    \cup {Request("SETUP", TRUE, u, "absent", NoBody, TRUE, tr) :
              u \in {UrlCam, UrlRoot},
              tr \in {TrPlayUdp, TrPlayTcp, TrRecordUdp,
                      TrRecordTcp(Inter01)}}

\* the requests of publishers that only announce and of readers over UDP, on
\* path c or on the root
RootRequests ==
    {Plain(m, TRUE, u) : m \in {"PLAY", "PAUSE"}, u \in {UrlCam, UrlRoot}}
    \cup {Request("ANNOUNCE", TRUE, u, "application/sdp",
                  [valid |-> TRUE, medias |-> MaxMedias, set |-> TRUE],
                  FALSE, <<>>) :
              u \in {UrlCam, UrlRoot}}
    \cup {Request("SETUP", TRUE, u, "absent", NoBody, TRUE, TrPlayUdp) :
              u \in {UrlCam, UrlRoot}}

\* the requests of a publisher or a reader of path c over TCP
TcpRequests ==
    {Plain(m, TRUE, UrlCam) : m \in {"PLAY", "RECORD"}}
    \cup {Request("ANNOUNCE", TRUE, UrlCam, "application/sdp", b, FALSE, <<>>) :
              b \in {x \in SdpBodies : x.valid}}
    \cup {Request("SETUP", TRUE, UrlCam, "absent", NoBody, TRUE, tr) :
              tr \in {TrPlayTcp, TrRecordTcp(Inter01),
                      TrRecordTcp(Inter23)}}

\* ------------------------------------------------------------ handleRequest

\* what one call of handleRequest leaves behind: the error it returns (nil,
\* a sentinel or a generic error), the status code of the response it built,
\* and the fields of c and of the registry as it leaves them
Outcome(c, err, code) ==
    [err |-> err, code |-> code,
     path |-> path[c], publishers |-> publishers, sdp |-> streamSdp[c],
     state |-> state[c], proto |-> streamProtocol[c],
     tracks |-> streamTracks[c]]

\* return nil, fmt.Errorf(...)
Fail(c) == Outcome(c, "generic", 0)

\* return &rtsp.Response{StatusCode: 200}, nil
Ok(c) == Outcome(c, "nil", 200)

Medias(pub) == streamSdp[pub].medias

\* _, ok := c.p.publishers[path]
PathTaken(p) == p \in DOMAIN publishers

\* a variant of ProtocolDiffers that accepts any protocol
ProtocolDiffersIgnored(c, proto) == FALSE

\* len(c.streamTracks) > 0 && c.streamProtocol != proto
ProtocolDiffers(c, proto) ==
    Len(streamTracks[c]) > 0 /\ streamProtocol[c] # proto

\* a variant of AllTracksSetup that lets one track too many through
AllTracksSetupOffByOne(c, pub) == Len(streamTracks[c]) > Medias(pub)

\* len(c.streamTracks) >= len(pub.streamSdpParsed.Medias)
AllTracksSetup(c, pub) == Len(streamTracks[c]) >= Medias(pub)

\* a variant of NotAllTracksSetup that only refuses too many tracks
NotAllTracksSetupFewer(c, pub) == Len(streamTracks[c]) > Medias(pub)

\* len(c.streamTracks) != len(pub.streamSdpParsed.Medias)
NotAllTracksSetup(c, pub) == Len(streamTracks[c]) # Medias(pub)

\* the transport token that selects UDP in the record branch of SETUP
RecordUdpToken == Str_RTP_AVP_UDP

\* a variant of AlreadyPublishing that never refuses an ANNOUNCE
AlreadyPublishingUnchecked(p) == FALSE

\* ANNOUNCE: _, ok := c.p.publishers[path]; if ok { return error }
AlreadyPublishing(p) == p \in DOMAIN publishers

HandleDescribe(c, r, p) ==
    IF state[c] # "STARTING" THEN {Fail(c)}
    ELSE IF ~PathTaken(p) THEN {Fail(c)}
    ELSE {Ok(c)}

\* a variant of WrongKey that lets every key through
WrongKeyAccepted(key) == FALSE

\* key[0] != c.p.publishKey
WrongKey(key) == key[1] # publishKey

\* the key check of ANNOUNCE: "ok", "generic" or "wrongkey"
CheckKey(r) ==
    IF publishKey = NoKey THEN "ok"
    ELSE LET q == ParseQuery(r.query, Str_key) IN
         IF ~q.ok THEN "generic"
         ELSE IF Len(q.vals) = 0 THEN "generic"
         ELSE IF WrongKey(q.vals) THEN "wrongkey"
         ELSE "ok"

\* a variant of HandleAnnounce without the test of c.state
HandleAnnounceAnyState(c, r, p) ==
    IF r.ctype = "absent" THEN {Fail(c)}
    ELSE IF r.ctype # "application/sdp" THEN {Fail(c)}
    ELSE IF ~r.content.valid THEN {Fail(c)}
    ELSE IF CheckKey(r) = "generic" THEN {Fail(c)}
    ELSE IF CheckKey(r) = "wrongkey" THEN {Outcome(c, "wrongkey", 0)}
    ELSE IF AlreadyPublishing(p) THEN {Fail(c)}
    ELSE {[Ok(c) EXCEPT
              !.path = p,
              !.publishers = [q \in DOMAIN publishers \cup {p} |->
                                 IF q = p THEN c ELSE publishers[q]],
              !.sdp = r.content,
              !.state = "ANNOUNCE"]}

\* case "ANNOUNCE" of handleRequest, for path p
HandleAnnounce(c, r, p) ==
    IF state[c] # "STARTING" THEN {Fail(c)}
    ELSE IF r.ctype = "absent" THEN {Fail(c)}
    ELSE IF r.ctype # "application/sdp" THEN {Fail(c)}
    ELSE IF ~r.content.valid THEN {Fail(c)}
    ELSE IF CheckKey(r) = "generic" THEN {Fail(c)}
    ELSE IF CheckKey(r) = "wrongkey" THEN {Outcome(c, "wrongkey", 0)}
    ELSE IF AlreadyPublishing(p) THEN {Fail(c)}
    ELSE {[Ok(c) EXCEPT
              !.path = p,
              !.publishers = [q \in DOMAIN publishers \cup {p} |->
                                 IF q = p THEN c ELSE publishers[q]],
              !.sdp = r.content,
              !.state = "ANNOUNCE"]}

\* the locked section shared by the two play branches of SETUP
SetupPlayLocked(c, p, proto, rtpPort, rtcpPort) ==
    IF ~PathTaken(p) THEN Fail(c)
    ELSE IF ProtocolDiffers(c, proto) THEN Fail(c)
    ELSE IF AllTracksSetup(c, publishers[p]) THEN Fail(c)
    ELSE [Ok(c) EXCEPT
             !.path = p,
             !.proto = proto,
             !.tracks = Append(streamTracks[c],
                               [rtpPort |-> rtpPort, rtcpPort |-> rtcpPort]),
             !.state = "PRE_PLAY"]

\* the locked section of the record branches of SETUP, after the checks that
\* are particular to TCP
SetupRecordLocked(c, proto, rtpPort, rtcpPort) ==
    [Ok(c) EXCEPT
        !.proto = proto,
        !.tracks = Append(streamTracks[c],
                          [rtpPort |-> rtpPort, rtcpPort |-> rtcpPort]),
        !.state = "PRE_RECORD"]

SetupPlay(c, p, th) ==
    IF Str_RTP_AVP \in th THEN
        {IF ports[1] = 0 \/ ports[2] = 0 THEN Fail(c)
         ELSE IF path[c] # NoPath /\ p # path[c] THEN Fail(c)
         ELSE SetupPlayLocked(c, p, STREAM_PROTOCOL_UDP, ports[1], ports[2]) :
            ports \in getClientPorts(th)}
    ELSE IF Str_RTP_AVP_TCP \in th THEN
        {IF path[c] # NoPath /\ p # path[c] THEN Fail(c)
         ELSE SetupPlayLocked(c, p, STREAM_PROTOCOL_TCP, 0, 0)}
    ELSE {Fail(c)}

\* a variant of expInterleaved that expects the channels of the first track
expInterleavedFirst(c) == FormatPair(0, 1)

\* expInterleaved := fmt.Sprintf("%d-%d", 0+len(c.streamTracks)*2,
\*                               1+len(c.streamTracks)*2)
expInterleaved(c) ==
    FormatPair(0 + Len(streamTracks[c]) * 2, 1 + Len(streamTracks[c]) * 2)

SetupRecord(c, p, th) ==
    IF Str_mode_record \notin th THEN {Fail(c)}
    ELSE IF p # path[c] THEN {Fail(c)}
    ELSE IF RecordUdpToken \in th THEN
        {IF ports[1] = 0 \/ ports[2] = 0 THEN Fail(c)
         ELSE IF ProtocolDiffers(c, STREAM_PROTOCOL_UDP) THEN Fail(c)
         ELSE IF AllTracksSetup(c, c) THEN Fail(c)
         ELSE SetupRecordLocked(c, STREAM_PROTOCOL_UDP, ports[1], ports[2]) :
            ports \in getClientPorts(th)}
    ELSE IF Str_RTP_AVP_TCP \in th THEN
        IF ProtocolDiffers(c, STREAM_PROTOCOL_TCP) THEN {Fail(c)}
        ELSE IF AllTracksSetup(c, c) THEN {Fail(c)}
        ELSE {IF interleaved = <<>> THEN Fail(c)
              ELSE IF interleaved # expInterleaved(c) THEN Fail(c)
              ELSE SetupRecordLocked(c, STREAM_PROTOCOL_TCP, 0, 0) :
                 interleaved \in getKeyValue(th, Str_interleaved)}
    ELSE {Fail(c)}

HandleSetup(c, r, p) ==
    IF ~r.hasTransport THEN {Fail(c)}
    ELSE LET th == newTransportHeader(r.transport) IN
         IF Str_unicast \notin th THEN {Fail(c)}
         ELSE IF state[c] \in {"STARTING", "PRE_PLAY"} THEN SetupPlay(c, p, th)
         ELSE IF state[c] \in {"ANNOUNCE", "PRE_RECORD"}
              THEN SetupRecord(c, p, th)
         ELSE {Fail(c)}

HandlePlay(c, r, p) ==
    IF state[c] # "PRE_PLAY" THEN {Fail(c)}
    ELSE IF p # path[c] THEN {Fail(c)}
    ELSE IF ~PathTaken(path[c]) THEN {Fail(c)}
    ELSE IF NotAllTracksSetup(c, publishers[path[c]]) THEN {Fail(c)}
    ELSE {Outcome(c, "play", 200)}

\* a variant of HandlePause that does not look at the state
HandlePauseAnyState(c, r, p) ==
    IF p # path[c] THEN {Fail(c)}
    ELSE {[Ok(c) EXCEPT !.state = "PRE_PLAY"]}

HandlePause(c, r, p) ==
    IF state[c] # "PLAY" THEN {Fail(c)}
    ELSE IF p # path[c] THEN {Fail(c)}
    ELSE {[Ok(c) EXCEPT !.state = "PRE_PLAY"]}

HandleRecord(c, r, p) ==
    IF state[c] # "PRE_RECORD" THEN {Fail(c)}
    ELSE IF p # path[c] THEN {Fail(c)}
    ELSE IF NotAllTracksSetup(c, c) THEN {Fail(c)}
    ELSE {Outcome(c, "record", 200)}

\* handleRequest(req): the outcomes the call can have for request r
handleRequest(c, r) ==
    IF ~r.cseq THEN {Fail(c)}
    ELSE LET p == ExtractPath(r.urPath) IN
         CASE r.method = "OPTIONS"  -> {Ok(c)}
           [] r.method = "DESCRIBE" -> HandleDescribe(c, r, p)
           [] r.method = "ANNOUNCE" -> HandleAnnounce(c, r, p)
           [] r.method = "SETUP"    -> HandleSetup(c, r, p)
           [] r.method = "PLAY"     -> HandlePlay(c, r, p)
           [] r.method = "PAUSE"    -> HandlePause(c, r, p)
           [] r.method = "RECORD"   -> HandleRecord(c, r, p)
           [] r.method = "TEARDOWN" -> {Outcome(c, "teardown", 0)}
           [] OTHER                 -> {Fail(c)}

\* -------------------------------------------------------------------- close

\* the registry as close() sees and changes it
Registry == [clients |-> clients, publishers |-> publishers, open |-> sockOpen]

\* a variant of SamePath in which the publisher's close closes nobody else
SamePathNobody(c, cl) == {}

\* the connections the publisher's close goes on to close:
\* for oc := range c.p.clients { if oc.path == c.path { oc.close() } }
SamePath(c, cl) == {oc \in cl : path[oc] = path[c]}

RECURSIVE close(_, _)
RECURSIVE closeAll(_, _)

\* a variant of close that looks only at the path: it has no test for a
\* connection that was already deleted and removes the publisher of the path
\* whoever it is
closeByPath(c, reg) ==
    LET r1 == [reg EXCEPT !.clients = reg.clients \ {c},
                          !.open = [reg.open EXCEPT ![c] = FALSE]]
    IN  IF path[c] # NoPath /\ path[c] \in DOMAIN r1.publishers
        THEN LET r2 == [r1 EXCEPT !.publishers =
                           [q \in DOMAIN r1.publishers \ {path[c]} |->
                               r1.publishers[q]]]
             IN  closeAll(SamePath(c, r2.clients), r2)
        ELSE r1

\* a variant of close without the test pub == c: the close of any connection
\* bound to a path removes the publisher of the path
closeAnyPublisher(c, reg) ==
    IF c \notin reg.clients THEN reg
    ELSE LET r1 == [reg EXCEPT !.clients = reg.clients \ {c},
                               !.open = [reg.open EXCEPT ![c] = FALSE]]
         IN  IF path[c] # NoPath /\ path[c] \in DOMAIN r1.publishers
             THEN LET r2 == [r1 EXCEPT !.publishers =
                                [q \in DOMAIN r1.publishers \ {path[c]} |->
                                    r1.publishers[q]]]
                  IN  closeAll(SamePath(c, r2.clients), r2)
             ELSE r1

\* client.close() on registry reg (the caller holds the mutex)
close(c, reg) ==
    IF c \notin reg.clients THEN reg
    ELSE LET r1 == [reg EXCEPT !.clients = reg.clients \ {c},
                               !.open = [reg.open EXCEPT ![c] = FALSE]]
         IN  IF path[c] # NoPath
                /\ path[c] \in DOMAIN r1.publishers
                /\ r1.publishers[path[c]] = c
             THEN LET r2 == [r1 EXCEPT !.publishers =
                                [q \in DOMAIN r1.publishers \ {path[c]} |->
                                    r1.publishers[q]]]
                  IN  closeAll(SamePath(c, r2.clients), r2)
             ELSE r1

\* the calls oc.close() of the loop, one after the other
closeAll(todo, reg) ==
    IF todo = {} THEN reg
    ELSE LET oc == CHOOSE x \in todo : TRUE
         IN  closeAll(todo \ {oc}, close(oc, reg))

\* ---------------------------------------------------------------- run loop

\* the registry and the connections before any connection is accepted
InitRegistry ==
    /\ clients = {}
    /\ publishers = <<>>
    /\ pc = [c \in Clients |-> "new"]
    /\ state = [c \in Clients |-> "STARTING"]
    /\ path = [c \in Clients |-> NoPath]
    /\ ip = [c \in Clients |-> FALSE]
    /\ streamSdp = [c \in Clients |-> NoSdp]
    /\ streamProtocol = [c \in Clients |-> STREAM_PROTOCOL_UDP]
    /\ streamTracks = [c \in Clients |-> <<>>]
    /\ sockOpen = [c \in Clients |-> TRUE]
    /\ res = [c \in Clients |-> NoRes]
    /\ playAcked = [c \in Clients |-> FALSE]
    /\ gotFrame = [c \in Clients |-> FALSE]
    /\ frames = [c \in Clients |-> <<>>]
    /\ forwards = [c \in Clients |-> <<>>]

\* the server started without publishKey
Init == publishKey = NoKey /\ InitRegistry

\* the server started with publishKey: k
InitKey == publishKey = PublishKey /\ InitRegistry

Goto(c, label) == pc' = [pc EXCEPT ![c] = label]

\* newClient: the accept loop registers the connection and starts run();
\* connections are accepted in the order of their numbers, at most n of them
newClient(c, n) ==
    /\ pc[c] = "new"
    /\ c <= n
    /\ \A d \in Clients : d < c => pc[d] # "new"
    /\ clients' = clients \cup {c}
    /\ Goto(c, "start")
    /\ UNCHANGED <<publishKey, ip, publishers, connVars, sockOpen, res,
                   playAcked, gotFrame, frames, forwards>>

\* the start of run: c.ip = net.ParseIP(ipstr), written without the mutex
ParseRemoteAddr(c) ==
    /\ pc[c] = "start"
    /\ ip' = [ip EXCEPT ![c] = TRUE]
    /\ Goto(c, "read")
    /\ UNCHANGED <<publishKey, clients, publishers, connVars, sockOpen, res,
                   playAcked, gotFrame, frames, forwards>>

\* the positions of run at which the step writes the registry and the
\* fields of connections only between c.p.mutex.Lock() and Unlock()
LockedPositions == {"new", "handle", "setPlay", "setRecord", "close"}

\* c.rconn.ReadRequest() returns a request
ReadRequest(c) ==
    /\ pc[c] = "read"
    /\ sockOpen[c]
    /\ Goto(c, "handle")
    /\ UNCHANGED <<publishKey, ip, clients, publishers, connVars, sockOpen,
                   res, playAcked, gotFrame, frames, forwards>>

\* c.rconn.ReadRequest() returns an error: the peer went away, the read timed
\* out, or close() has closed the socket
ReadRequestError(c) ==
    /\ pc[c] = "read"
    /\ Goto(c, "close")
    /\ UNCHANGED <<publishKey, ip, clients, publishers, connVars, sockOpen,
                   res, playAcked, gotFrame, frames, forwards>>

\* a variant of AfterHandle in which run answers a TEARDOWN
AfterHandleAnswersTeardown(err) ==
    CASE err = "nil"      -> "write"
      [] err = "teardown" -> "write"
      [] err = "play"     -> "writePlay"
      [] err = "record"   -> "writeRecord"
      [] err = "wrongkey" -> "write401"
      [] OTHER            -> "write400"

\* where run goes with what handleRequest returned
AfterHandle(err) ==
    CASE err = "nil"      -> "write"
      [] err = "teardown" -> "close"
      [] err = "play"     -> "writePlay"
      [] err = "record"   -> "writeRecord"
      [] err = "wrongkey" -> "write401"
      [] OTHER            -> "write400"

\* res, err := c.handleRequest(req), for the request r that was read, one of
\* the requests reqs
HandleRequest(c, reqs) ==
    /\ pc[c] = "handle"
    /\ \E r \in reqs : \E o \in handleRequest(c, r) :
        /\ publishers' = o.publishers
        /\ path' = [path EXCEPT ![c] = o.path]
        /\ streamSdp' = [streamSdp EXCEPT ![c] = o.sdp]
        /\ state' = [state EXCEPT ![c] = o.state]
        /\ streamProtocol' = [streamProtocol EXCEPT ![c] = o.proto]
        /\ streamTracks' = [streamTracks EXCEPT ![c] = o.tracks]
        /\ res' = [res EXCEPT ![c] =
                      [err |-> o.err, code |-> o.code, cseq |-> r.cseq,
                       method |-> r.method]]
        /\ Goto(c, AfterHandle(o.err))
    /\ UNCHANGED <<publishKey, ip, clients, sockOpen, playAcked, gotFrame,
                   frames, forwards>>

\* case nil: c.rconn.WriteResponse(res) succeeds
WriteResponse(c) ==
    /\ pc[c] = "write"
    /\ sockOpen[c]
    /\ res' = [res EXCEPT ![c] = NoRes]
    /\ Goto(c, "read")
    /\ UNCHANGED <<publishKey, ip, clients, publishers, connVars, sockOpen,
                   playAcked, gotFrame, frames, forwards>>

\* WriteResponse fails in one of the cases nil, errPlay, errRecord: return
WriteResponseError(c) ==
    /\ pc[c] \in {"write", "writePlay", "writeRecord"}
    /\ res' = [res EXCEPT ![c] = NoRes]
    /\ Goto(c, "close")
    /\ UNCHANGED <<publishKey, ip, clients, publishers, connVars, sockOpen,
                   playAcked, gotFrame, frames, forwards>>

\* case errPlay: the response is written
WritePlayResponse(c) ==
    /\ pc[c] = "writePlay"
    /\ sockOpen[c]
    /\ playAcked' = [playAcked EXCEPT ![c] = TRUE]
    /\ res' = [res EXCEPT ![c] = NoRes]
    /\ Goto(c, "setPlay")
    /\ UNCHANGED <<publishKey, ip, clients, publishers, connVars, sockOpen,
                   gotFrame, frames, forwards>>

\* a variant of SetStatePlay that sets the state before the response is
\* written
SetStatePlayBeforeWrite(c) ==
    /\ pc[c] = "writePlay"
    /\ state' = [state EXCEPT ![c] = "PLAY"]
    /\ Goto(c, "write")
    /\ UNCHANGED <<publishKey, ip, clients, publishers, path, streamSdp,
                   streamProtocol, streamTracks, sockOpen, res, playAcked,
                   gotFrame, frames, forwards>>

\* case errPlay: c.state = "PLAY" under the mutex, then the read-discard loop
\* when the protocol is TCP
SetStatePlay(c) ==
    /\ pc[c] = "setPlay"
    /\ state' = [state EXCEPT ![c] = "PLAY"]
    /\ Goto(c, IF streamProtocol[c] = STREAM_PROTOCOL_TCP
               THEN "tcpPlay" ELSE "read")
    /\ UNCHANGED <<publishKey, ip, clients, publishers, path, streamSdp,
                   streamProtocol, streamTracks, sockOpen, res, playAcked,
                   gotFrame, frames, forwards>>

\* the read-discard loop of a TCP reader: c.rconn.Read(buf) fails
TcpPlayReadError(c) ==
    /\ pc[c] = "tcpPlay"
    /\ Goto(c, "close")
    /\ UNCHANGED <<publishKey, ip, clients, publishers, connVars, sockOpen,
                   res, playAcked, gotFrame, frames, forwards>>

\* case errRecord: the response is written
WriteRecordResponse(c) ==
    /\ pc[c] = "writeRecord"
    /\ sockOpen[c]
    /\ res' = [res EXCEPT ![c] = NoRes]
    /\ Goto(c, "setRecord")
    /\ UNCHANGED <<publishKey, ip, clients, publishers, connVars, sockOpen,
                   playAcked, gotFrame, frames, forwards>>

\* case errRecord: c.state = "RECORD" under the mutex, then the frame loop
\* when the protocol is TCP
SetStateRecord(c) ==
    /\ pc[c] = "setRecord"
    /\ state' = [state EXCEPT ![c] = "RECORD"]
    /\ Goto(c, IF streamProtocol[c] = STREAM_PROTOCOL_TCP
               THEN "tcpRecord" ELSE "read")
    /\ UNCHANGED <<publishKey, ip, clients, publishers, path, streamSdp,
                   streamProtocol, streamTracks, sockOpen, res, playAcked,
                   gotFrame, frames, forwards>>

\* program.forwardTrack(path, id, flow, frame): the frame goes to every
\* registered connection on the path that is in state PLAY
forwardTrack(p, id, flow) ==
    gotFrame' = [r \in Clients |->
                    IF r \in clients /\ path[r] = p /\ state[r] = "PLAY"
                    THEN TRUE ELSE gotFrame[r]]

\* the frame loop of a TCP publisher: a frame arrives on a channel; the first
\* n frames and the calls made for them are recorded
TcpRecordFrame(c, n) ==
    /\ pc[c] = "tcpRecord"
    /\ sockOpen[c]
    /\ \E channel \in 0..MaxChannel :
        LET t == interleavedChannelToTrack(channel)
            logged == Len(frames[c]) < n
        IN
        /\ frames' = IF logged
                      THEN [frames EXCEPT ![c] = Append(@, channel)]
                      ELSE frames
        /\ IF t.id >= Len(streamTracks[c])
           THEN /\ Goto(c, "close")
                /\ UNCHANGED <<gotFrame, forwards>>
           ELSE /\ forwardTrack(path[c], t.id, t.flow)
                /\ forwards' =
                      IF logged
                      THEN [forwards EXCEPT ![c] =
                               Append(@, [path |-> path[c], id |-> t.id,
                                          flow |-> t.flow])]
                      ELSE forwards
                /\ UNCHANGED pc
    /\ UNCHANGED <<publishKey, ip, clients, publishers, connVars, sockOpen,
                   res, playAcked>>

\* the frame loop of a TCP publisher: ReadInterleavedFrame fails
TcpRecordReadError(c) ==
    /\ pc[c] = "tcpRecord"
    /\ Goto(c, "close")
    /\ UNCHANGED <<publishKey, ip, clients, publishers, connVars, sockOpen,
                   res, playAcked, gotFrame, frames, forwards>>

\* the UDP listeners: a datagram from a registered UDP publisher in RECORD,
\* sent from the port of one of its tracks, is forwarded
UdpFrame(c) ==
    /\ c \in clients
    /\ state[c] = "RECORD"
    /\ streamProtocol[c] = STREAM_PROTOCOL_UDP
    /\ \E id \in 1..Len(streamTracks[c]) :
       \E flow \in {TRACK_FLOW_RTP, TRACK_FLOW_RTCP} :
           forwardTrack(path[c], id - 1, flow)
    /\ UNCHANGED <<publishKey, ip, clients, publishers, pc, connVars,
                   sockOpen, res, playAcked, frames, forwards>>

\* case errWrongKey and the default case: the error response is written (a
\* failure of the write is ignored) and run returns
WriteErrorResponse(c) ==
    /\ pc[c] \in {"write400", "write401"}
    /\ res' = [res EXCEPT ![c] = NoRes]
    /\ Goto(c, "close")
    /\ UNCHANGED <<publishKey, ip, clients, publishers, connVars, sockOpen,
                   playAcked, gotFrame, frames, forwards>>

\* the deferred function of run: c.close() under the mutex
DeferredClose(c) ==
    /\ pc[c] = "close"
    /\ LET reg == close(c, Registry) IN
        /\ clients' = reg.clients
        /\ publishers' = reg.publishers
        /\ sockOpen' = reg.open
    /\ Goto(c, "done")
    /\ UNCHANGED <<publishKey, ip, connVars, res, playAcked, gotFrame, frames,
                   forwards>>

Next ==
    \E c \in Clients :
        \/ newClient(c, MaxAccepted)
        \/ ParseRemoteAddr(c)
        \/ ReadRequest(c)
        \/ ReadRequestError(c)
        \/ HandleRequest(c, Requests)
        \/ WriteResponse(c)
        \/ WriteResponseError(c)
        \/ WritePlayResponse(c)
        \/ SetStatePlay(c)
        \/ TcpPlayReadError(c)
        \/ WriteRecordResponse(c)
        \/ SetStateRecord(c)
        \/ TcpRecordFrame(c, 0)
        \/ TcpRecordReadError(c)
        \/ UdpFrame(c)
        \/ WriteErrorResponse(c)
        \/ DeferredClose(c)

Spec == Init /\ [][Next]_vars

\* three connections on one path over UDP
NextThree ==
    \E c \in Clients :
        \/ newClient(c, NumClients)
        \/ ParseRemoteAddr(c)
        \/ ReadRequest(c)
        \/ ReadRequestError(c)
        \/ HandleRequest(c, CamRequests)
        \/ WriteResponse(c)
        \/ WriteResponseError(c)
        \/ WritePlayResponse(c)
        \/ SetStatePlay(c)
        \/ WriteRecordResponse(c)
        \/ SetStateRecord(c)
        \/ UdpFrame(c)
        \/ WriteErrorResponse(c)
        \/ DeferredClose(c)

SpecThree == Init /\ [][NextThree]_vars

\* two connections on one path over UDP, the server configured with a key
NextKey ==
    \E c \in Clients :
        \/ newClient(c, MaxAccepted)
        \/ ParseRemoteAddr(c)
        \/ ReadRequest(c)
        \/ ReadRequestError(c)
        \/ HandleRequest(c, KeyRequests)
        \/ WriteResponse(c)
        \/ WriteResponseError(c)
        \/ WritePlayResponse(c)
        \/ SetStatePlay(c)
        \/ WriteRecordResponse(c)
        \/ SetStateRecord(c)
        \/ UdpFrame(c)
        \/ WriteErrorResponse(c)
        \/ DeferredClose(c)

SpecKey == InitKey /\ [][NextKey]_vars

\* three connections on path c or on the root, the readers over UDP
NextRoot ==
    \E c \in Clients :
        \/ newClient(c, NumClients)
        \/ ParseRemoteAddr(c)
        \/ ReadRequest(c)
        \/ ReadRequestError(c)
        \/ HandleRequest(c, RootRequests)
        \/ WriteResponse(c)
        \/ WriteResponseError(c)
        \/ WritePlayResponse(c)
        \/ SetStatePlay(c)
        \/ WriteErrorResponse(c)
        \/ DeferredClose(c)

SpecRoot == Init /\ [][NextRoot]_vars

\* two connections on one path over TCP, the first frames of a publisher
\* recorded
NextTcp ==
    \E c \in Clients :
        \/ newClient(c, MaxAccepted)
        \/ ParseRemoteAddr(c)
        \/ ReadRequest(c)
        \/ ReadRequestError(c)
        \/ HandleRequest(c, TcpRequests)
        \/ WriteResponse(c)
        \/ WriteResponseError(c)
        \/ WritePlayResponse(c)
        \/ SetStatePlay(c)
        \/ TcpPlayReadError(c)
        \/ WriteRecordResponse(c)
        \/ SetStateRecord(c)
        \/ TcpRecordFrame(c, MaxFrames)
        \/ TcpRecordReadError(c)
        \/ WriteErrorResponse(c)
        \/ DeferredClose(c)

SpecTcp == Init /\ [][NextTcp]_vars

\* the peer of connection c disconnects: from now on reads of the socket
\* return an error and writes fail
PeerDisconnect(c) ==
    /\ c \in clients
    /\ sockOpen[c]
    /\ sockOpen' = [sockOpen EXCEPT ![c] = FALSE]
    /\ UNCHANGED <<publishKey, ip, clients, publishers, pc, connVars, res,
                   playAcked, gotFrame, frames, forwards>>

\* the run loops of two connections whose peers may disconnect
NextLive ==
    \E c \in Clients :
        \/ newClient(c, MaxAccepted)
        \/ PeerDisconnect(c)
        \/ ParseRemoteAddr(c)
        \/ ReadRequest(c)
        \/ ReadRequestError(c)
        \/ HandleRequest(c, LiveRequests)
        \/ WriteResponse(c)
        \/ WriteResponseError(c)
        \/ WritePlayResponse(c)
        \/ SetStatePlay(c)
        \/ TcpPlayReadError(c)
        \/ WriteRecordResponse(c)
        \/ SetStateRecord(c)
        \/ TcpRecordFrame(c, 0)
        \/ TcpRecordReadError(c)
        \/ UdpFrame(c)
        \/ WriteErrorResponse(c)
        \/ DeferredClose(c)

\* the goroutine of connection c is scheduled: a read of a closed socket
\* returns, handleRequest returns, a write returns, the mutex is granted
FairRun(c) ==
    /\ WF_vars(ParseRemoteAddr(c))
    /\ WF_vars(~sockOpen[c] /\ ReadRequestError(c))
    /\ WF_vars(~sockOpen[c] /\ TcpPlayReadError(c))
    /\ WF_vars(~sockOpen[c] /\ TcpRecordReadError(c))
    /\ WF_vars(HandleRequest(c, LiveRequests))
    /\ WF_vars(WriteResponse(c) \/ WriteResponseError(c))
    /\ WF_vars(WritePlayResponse(c) \/ WriteResponseError(c))
    /\ WF_vars(WriteRecordResponse(c) \/ WriteResponseError(c))
    /\ WF_vars(WriteErrorResponse(c))
    /\ WF_vars(SetStatePlay(c))
    /\ WF_vars(SetStateRecord(c))
    /\ WF_vars(DeferredClose(c))

SpecLive == Init /\ [][NextLive]_vars /\ \A c \in Clients : FairRun(c)

\* ------------------------------------------------------------------ claims

PublisherStates == {"ANNOUNCE", "PRE_RECORD", "RECORD"}

ReaderStates == {"PRE_PLAY", "PLAY"}

Paths == {NoPath} \cup {ExtractPath(u) : u \in UrlPaths}

\* connection c has just come out of handleRequest in this step
Handled(c) == pc[c] = "handle" /\ pc'[c] # "handle"

\* the fields of connection c that other connections read
Unchanged(c) ==
    /\ state'[c] = state[c]
    /\ path'[c] = path[c]
    /\ streamSdp'[c] = streamSdp[c]
    /\ streamProtocol'[c] = streamProtocol[c]
    /\ streamTracks'[c] = streamTracks[c]

\* the registered connections that are in a publisher state on path p
PublishingOn(p) ==
    {c \in clients : state[c] \in PublisherStates /\ path[c] = p}

\* every outcome handleRequest can have for connection c, which stands before
\* the call, and a request r that satisfies want, satisfies then
ForEveryRequest(c, want(_), then(_, _)) ==
    pc[c] = "handle" =>
        \A r \in Requests : want(r) =>
            \A o \in handleRequest(c, r) : then(r, o)

\* outcome o leaves connection c and the registry as they are
Untouched(c, o) ==
    /\ o.publishers = publishers
    /\ o.path = path[c]
    /\ o.sdp = streamSdp[c]
    /\ o.state = state[c]
    /\ o.proto = streamProtocol[c]
    /\ o.tracks = streamTracks[c]

\* outcome o is a generic error: run answers 400 and returns
Refused(c, o) == o.err = "generic" /\ Untouched(c, o)

C1_Refuse ==
    \A c \in Clients :
        LET want(r) == /\ r.method = "ANNOUNCE"
                       /\ ExtractPath(r.urPath) \in DOMAIN publishers
            then(r, o) == Refused(c, o)
        IN  ForEveryRequest(c, want, then)

C1_Step ==
    /\ \A p \in DOMAIN publishers :
           p \in DOMAIN publishers' => publishers'[p] = publishers[p]
    /\ \A c \in Clients :
        /\ (Handled(c) /\ res'[c].method = "ANNOUNCE") =>
              \/ /\ pc'[c] = "write400"
                 /\ publishers' = publishers
                 /\ \A d \in Clients : Unchanged(d)
              \/ /\ pc'[c] = "write"
                 /\ state'[c] = "ANNOUNCE"
                 /\ path'[c] \notin DOMAIN publishers
                 /\ DOMAIN publishers' = DOMAIN publishers \cup {path'[c]}
                 /\ publishers'[path'[c]] = c
                 /\ \A d \in Clients \ {c} : Unchanged(d)
        /\ pc[c] = "write400" => pc'[c] \in {"write400", "close"}
        /\ pc[c] = "close" =>
              \/ pc'[c] = "close"
              \/ pc'[c] = "done" /\ c \notin clients' /\ ~sockOpen'[c]

\* C1: a path has at most one publisher. An ANNOUNCE on path p installs the
\* requester in publishers[p] only when publishers[p] is absent; when
\* publishers[p] exists the requester is answered 400 and closed, and
\* publishers[p] still is the original publisher with its state, SDP and
\* tracks unchanged; no step replaces an entry of publishers by another
\* connection, and no two registered connections publish on one path.
C1_SinglePublisher ==
    /\ [](\A p \in Paths : Cardinality(PublishingOn(p)) <= 1)
    /\ []C1_Refuse
    /\ [][C1_Step]_vars

\* a second ANNOUNCE, well-formed and on the path of a registered publisher,
\* has been refused
C1_Witness ==
    \E c \in Clients :
        /\ pc[c] = "write400"
        /\ res[c].method = "ANNOUNCE"
        /\ res[c].cseq
        /\ state[c] = "STARTING"
        /\ DOMAIN publishers = {ExtractPath(UrlCam)}
        /\ publishers[ExtractPath(UrlCam)] \in clients \ {c}
        /\ state[publishers[ExtractPath(UrlCam)]] = "RECORD"

C2_Step ==
    \A p \in DOMAIN publishers :
        p \notin DOMAIN publishers' =>
            /\ pc[publishers[p]] = "close" /\ pc'[publishers[p]] = "done"
            /\ \A c \in Clients :
                   path[c] = p => c \notin clients' /\ ~sockOpen'[c]

\* C2: when a publisher of path p is removed from publishers, which only its
\* own close does, the same step removes every connection whose path is p from
\* clients and closes its socket; in no reachable state a registered
\* connection is bound to a path that has no publisher.
C2_PublisherCascade ==
    /\ [](\A c \in clients : path[c] # NoPath => path[c] \in DOMAIN publishers)
    /\ [][C2_Step]_vars

\* a publisher has closed and its close has closed two other connections on
\* its path, whose own run has not returned yet
C2_Witness ==
    \E pub \in Clients : \E r1, r2 \in Clients \ {pub} :
        /\ r1 # r2
        /\ pc[pub] = "done"
        /\ state[pub] \in PublisherStates
        /\ path[pub] \notin DOMAIN publishers
        /\ \A r \in {r1, r2} :
              /\ path[r] = path[pub]
              /\ state[r] \in ReaderStates
              /\ pc[r] \notin {"close", "done"}
              /\ r \notin clients
              /\ ~sockOpen[r]

\* connection c takes the transition to state st in this step
Enters(c, st) == state[c] # st /\ state'[c] = st

\* C3 as stated: every connection in PRE_PLAY or PLAY on path p has an entry
\* publishers[p], and no connection takes the transition to PLAY while
\* publishers[path] is absent.
C3_AsStated ==
    /\ [](\A c \in Clients :
             state[c] \in ReaderStates => path[c] \in DOMAIN publishers)
    /\ [][\A c \in Clients :
             Enters(c, "PLAY") => path[c] \in DOMAIN publishers]_vars

\* C3: every connection registered in clients that is in PRE_PLAY or PLAY on
\* path p has an entry publishers[p], and no registered connection takes the
\* transition to PLAY while publishers[path] is absent.
C3_RegisteredReaderHasPublisher ==
    /\ [](\A c \in clients :
             state[c] \in ReaderStates => path[c] \in DOMAIN publishers)
    /\ [][\A c \in clients :
             Enters(c, "PLAY") => path[c] \in DOMAIN publishers]_vars

\* a registered reader has reached PLAY on the path of a registered publisher
C3_Witness ==
    \E c \in clients :
        /\ state[c] = "PLAY"
        /\ pc[c] \in {"read", "tcpPlay"}
        /\ path[c] \in DOMAIN publishers
        /\ publishers[path[c]] \in clients \ {c}

\* C4: for every connection c that is registered in clients and every path p,
\* publishers[p] is c exactly when c is in state ANNOUNCE, PRE_RECORD or
\* RECORD and its path is p.
C4_PublisherIffPublishing ==
    \A c \in clients : \A p \in Paths :
        (p \in DOMAIN publishers /\ publishers[p] = c)
            <=> (state[c] \in PublisherStates /\ path[c] = p)

\* a registered publisher in RECORD beside a registered connection that is
\* none
C4_Witness ==
    \E c, d \in clients :
        /\ state[c] = "RECORD"
        /\ path[c] \in DOMAIN publishers
        /\ publishers[path[c]] = c
        /\ d # c
        /\ path[d] = path[c]
        /\ state[d] \in ReaderStates

\* the connection whose SDP bounds the tracks of c, as a set: c itself when it
\* is in a publisher state, else the publisher of its path, if any
SdpOwner(c) ==
    IF state[c] \in PublisherStates THEN {c}
    ELSE IF path[c] \in DOMAIN publishers THEN {publishers[path[c]]}
    ELSE {}

WithinMedias(c) ==
    \A pub \in SdpOwner(c) : Len(streamTracks[c]) <= Medias(pub)

\* a SETUP either is refused and changes nothing, or appends one track and
\* leaves the connection within the media count; so a SETUP that would exceed
\* the count is refused
C5_Step ==
    \A c \in Clients :
        (Handled(c) /\ res'[c].method = "SETUP") =>
            \/ /\ pc'[c] = "write400"
               /\ Unchanged(c)
            \/ /\ pc'[c] = "write"
               /\ Len(streamTracks'[c]) = Len(streamTracks[c]) + 1
               /\ SdpOwner(c)' # {}
               /\ WithinMedias(c)'

\* C5 as stated: for every connection, len(streamTracks) is at most the media
\* count of the SDP of the publisher of its path (its own SDP when it is the
\* publisher), and a SETUP that would exceed the count is refused and appends
\* no track.
C5_AsStated ==
    /\ [](\A c \in Clients : WithinMedias(c))
    /\ [][C5_Step]_vars

\* C5: for every connection registered in clients, len(streamTracks) is at
\* most the media count of the SDP of the publisher of its path (its own SDP
\* when it is the publisher); for every connection a SETUP that would exceed
\* the count is refused and appends no track.
C5_TracksWithinMedias ==
    /\ [](\A c \in clients : WithinMedias(c))
    /\ [][C5_Step]_vars

\* a registered reader with as many tracks as its publisher has medias has
\* sent a further SETUP, which was refused
C5_Witness ==
    \E c \in clients :
        /\ pc[c] = "write400"
        /\ res[c].method = "SETUP"
        /\ state[c] = "PRE_PLAY"
        /\ \E pub \in SdpOwner(c) :
              /\ pub # c
              /\ Medias(pub) = MaxMedias
              /\ Len(streamTracks[c]) = Medias(pub)

\* handleRequest answers PLAY with errPlay only in PRE_PLAY with as many
\* tracks as the publisher of the path has medias, RECORD with errRecord only
\* in PRE_RECORD with as many tracks as the own SDP has medias, and refuses
\* either otherwise
C6_Handle ==
    \A c \in Clients :
        LET want(r) == r.method \in {"PLAY", "RECORD"}
            then(r, o) ==
                /\ Untouched(c, o)
                /\ o.err \in {"play", "record", "generic"}
                /\ o.err = "play" =>
                      /\ r.method = "PLAY"
                      /\ state[c] = "PRE_PLAY"
                      /\ path[c] \in DOMAIN publishers
                      /\ Len(streamTracks[c]) = Medias(publishers[path[c]])
                /\ o.err = "record" =>
                      /\ r.method = "RECORD"
                      /\ state[c] = "PRE_RECORD"
                      /\ Len(streamTracks[c]) = Medias(c)
        IN  ForEveryRequest(c, want, then)

\* PLAY and RECORD are entered only by run, after the response to an accepted
\* PLAY or RECORD; a refused request is answered 400, the connection closes
\* and its state does not change any more
C6_Step ==
    \A c \in Clients :
        /\ Enters(c, "PLAY") => pc[c] = "setPlay" /\ state[c] = "PRE_PLAY"
        /\ Enters(c, "RECORD") =>
              pc[c] = "setRecord" /\ state[c] = "PRE_RECORD"
        /\ (pc'[c] = "setPlay" /\ pc[c] # "setPlay") => pc[c] = "writePlay"
        /\ (pc'[c] = "setRecord" /\ pc[c] # "setRecord") =>
              pc[c] = "writeRecord"
        /\ (pc'[c] = "writePlay" /\ pc[c] # "writePlay") =>
              Handled(c) /\ res'[c].err = "play"
        /\ (pc'[c] = "writeRecord" /\ pc[c] # "writeRecord") =>
              Handled(c) /\ res'[c].err = "record"
        /\ pc[c] \in {"writePlay", "setPlay", "writeRecord", "setRecord"} =>
              streamTracks'[c] = streamTracks[c]
        /\ (Handled(c) /\ res'[c].err = "generic") => pc'[c] = "write400"
        /\ pc[c] \in {"write400", "close", "done"} =>
              /\ pc'[c] \in {"write400", "close", "done"}
              /\ state'[c] = state[c]

\* C6: a connection moves from PRE_PLAY to PLAY only if, when its PLAY was
\* handled, it had as many tracks as the publisher of its path has medias, and
\* from PRE_RECORD to RECORD only if it had as many tracks as its own SDP has
\* medias; a PLAY or RECORD with fewer tracks is answered 400, the connection
\* is closed and does not reach PLAY or RECORD.
C6_AllTracksBeforePlayRecord ==
    /\ []C6_Handle
    /\ [][C6_Step]_vars

\* a registered reader with fewer tracks than its publisher has medias has
\* sent PLAY, which was refused
C6_Witness ==
    \E c \in clients :
        /\ pc[c] = "write400"
        /\ res[c].method = "PLAY"
        /\ res[c].cseq
        /\ state[c] = "PRE_PLAY"
        /\ path[c] \in DOMAIN publishers
        /\ Len(streamTracks[c]) < Medias(publishers[path[c]])

\* the protocol a track was set up with: UDP tracks carry the client's ports,
\* TCP tracks carry none
TrackProtocol(t) ==
    IF t.rtpPort = 0 /\ t.rtcpPort = 0
    THEN STREAM_PROTOCOL_TCP ELSE STREAM_PROTOCOL_UDP

AsksUdp(th) ==
    /\ Str_RTP_AVP \in th \/ Str_RTP_AVP_UDP \in th
    /\ Str_RTP_AVP_TCP \notin th

AsksTcp(th) ==
    /\ Str_RTP_AVP_TCP \in th
    /\ Str_RTP_AVP \notin th /\ Str_RTP_AVP_UDP \notin th

\* a SETUP for the other protocol than the one of the tracks is refused
C7_Handle ==
    \A c \in Clients :
        LET want(r) ==
                /\ r.method = "SETUP"
                /\ r.hasTransport
                /\ Len(streamTracks[c]) > 0
                /\ LET th == newTransportHeader(r.transport) IN
                   \/ AsksUdp(th) /\ streamProtocol[c] = STREAM_PROTOCOL_TCP
                   \/ AsksTcp(th) /\ streamProtocol[c] = STREAM_PROTOCOL_UDP
            then(r, o) == Refused(c, o)
        IN  ForEveryRequest(c, want, then)

C7_Step ==
    \A c \in Clients :
        /\ Len(streamTracks[c]) > 0 =>
              streamProtocol'[c] = streamProtocol[c]
        /\ \/ streamTracks'[c] = streamTracks[c]
           \/ /\ Handled(c) /\ res'[c].method = "SETUP"
              /\ Len(streamTracks'[c]) = Len(streamTracks[c]) + 1
              /\ SubSeq(streamTracks'[c], 1, Len(streamTracks[c]))
                     = streamTracks[c]

\* C7: streamProtocol is fixed by the first successful SETUP of a connection
\* and does not change afterwards; a SETUP for UDP after a TCP track exists,
\* or for TCP after a UDP track exists, is refused in the reader and in the
\* publisher branch and appends no track; all tracks of a connection are of
\* its streamProtocol.
C7_OneProtocol ==
    /\ [](\A c \in Clients : \A i \in 1..Len(streamTracks[c]) :
             TrackProtocol(streamTracks[c][i]) = streamProtocol[c])
    /\ []C7_Handle
    /\ [][C7_Step]_vars

\* a registered reader with one TCP track of two has sent a further SETUP,
\* which was refused, and a publisher has set up tracks as well
C7_Witness ==
    \E c \in clients :
        /\ pc[c] = "write400"
        /\ res[c].method = "SETUP"
        /\ res[c].cseq
        /\ state[c] = "PRE_PLAY"
        /\ streamProtocol[c] = STREAM_PROTOCOL_TCP
        /\ Len(streamTracks[c]) = 1
        /\ path[c] \in DOMAIN publishers
        /\ Medias(publishers[path[c]]) = 2
        /\ Len(streamTracks[publishers[path[c]]]) > 0

\* C8: after the close of a connection has run, the connection is not in
\* clients, its socket is closed, and no entry of publishers refers to it, so
\* that a later ANNOUNCE on its path can succeed.
C8_CloseReleases ==
    \A c \in Clients :
        pc[c] = "done" =>
            /\ c \notin clients
            /\ ~sockOpen[c]
            /\ \A p \in DOMAIN publishers : publishers[p] # c

\* the PLAY state is entered only by run after the response was written, a
\* failed write of the response returns with the state as it was, and a frame
\* is delivered only to connections that were in PLAY before the step
C9_Step ==
    \A c \in Clients :
        /\ Enters(c, "PLAY") => pc[c] = "setPlay" /\ playAcked[c]
        /\ (pc[c] = "writePlay" /\ pc'[c] = "close") =>
              state'[c] = state[c] /\ state[c] # "PLAY"
        /\ (gotFrame'[c] /\ ~gotFrame[c]) =>
              state[c] = "PLAY" /\ playAcked[c]

\* C9: no frame is delivered to a reader before the 200 response to its PLAY
\* has been written: a connection is in state PLAY, in which forwarding
\* reaches it, only after the write of the response has completed, and a
\* failed write of the response does not leave it in PLAY.
C9_NoFrameBeforePlayResponse ==
    /\ [](\A c \in Clients : gotFrame[c] \/ state[c] = "PLAY" => playAcked[c])
    /\ [][C9_Step]_vars

\* a registered reader in PLAY has been sent a frame of a registered
\* publisher in RECORD
C9_Witness ==
    \E c \in clients :
        /\ gotFrame[c]
        /\ playAcked[c]
        /\ state[c] = "PLAY"
        /\ path[c] \in DOMAIN publishers
        /\ publishers[path[c]] \in clients \ {c}
        /\ state[publishers[path[c]]] = "RECORD"

\* SETUP with Transport: RTP/AVP;unicast;client_port=5000-5001;mode=record
C10_Setup ==
    Request("SETUP", TRUE, UrlCam, "absent", NoBody, TRUE, TrRecordAvp)

\* C10: a connection that has announced a free path with a one-media SDP and
\* then sends SETUP with the transport tokens RTP/AVP, unicast,
\* client_port=5000-5001 and mode=record is answered 200 and is in PRE_RECORD
\* with streamProtocol UDP and one track with ports 5000 and 5001, from where
\* RECORD takes it to RECORD.
C10_PublisherSetupOverAvp ==
    \A c \in clients :
        ( /\ pc[c] = "handle"
          /\ state[c] = "ANNOUNCE"
          /\ path[c] = ExtractPath(UrlCam)
          /\ Medias(c) = 1
          /\ streamTracks[c] = <<>> ) =>
            \A o \in handleRequest(c, C10_Setup) :
                /\ o.err = "nil"
                /\ o.code = 200
                /\ o.state = "PRE_RECORD"
                /\ o.proto = STREAM_PROTOCOL_UDP
                /\ o.tracks = <<[rtpPort |-> 5000, rtcpPort |-> 5001]>>

\* the values of the key parameter of the URL of request r
KeyOf(r) == ParseQuery(r.query, Str_key)

\* request r is an ANNOUNCE that passes the checks handleRequest makes before
\* it looks at the key
ReachesKeyCheck(c, r) ==
    /\ r.method = "ANNOUNCE"
    /\ r.cseq
    /\ state[c] = "STARTING"
    /\ r.ctype = "application/sdp"
    /\ r.content.valid

\* an ANNOUNCE whose key differs from publishKey returns errWrongKey and
\* changes nothing, and only an ANNOUNCE whose key is publishKey installs a
\* publisher
C11_Handle ==
    \A c \in Clients :
        pc[c] = "handle" =>
            \A r \in KeyRequests : \A o \in handleRequest(c, r) :
                /\ ( /\ ReachesKeyCheck(c, r)
                     /\ KeyOf(r).ok
                     /\ Len(KeyOf(r).vals) > 0
                     /\ KeyOf(r).vals[1] # publishKey ) =>
                        o.err = "wrongkey" /\ Untouched(c, o)
                /\ ( \/ o.publishers # publishers
                     \/ /\ state[c] \notin PublisherStates
                        /\ o.state \in PublisherStates ) =>
                      /\ r.method = "ANNOUNCE"
                      /\ KeyOf(r).ok
                      /\ Len(KeyOf(r).vals) > 0
                      /\ KeyOf(r).vals[1] = publishKey

\* errWrongKey is answered 401 and the connection closes with publishers as
\* it was; a connection enters a publisher state, and publishers gains an
\* entry, only when handleRequest has accepted an ANNOUNCE
C11_Step ==
    \A c \in Clients :
        /\ (Handled(c) /\ res'[c].err = "wrongkey") =>
              /\ pc'[c] = "write401"
              /\ res'[c].method = "ANNOUNCE"
              /\ publishers' = publishers
              /\ Unchanged(c)
        /\ pc[c] = "write401" =>
              /\ pc'[c] \in {"write401", "close"}
              /\ state'[c] = state[c]
        /\ (pc[c] = "close" /\ state[c] = "STARTING") =>
              /\ state'[c] = state[c]
              /\ \/ pc'[c] = "close"
                 \/ pc'[c] = "done" /\ c \notin clients' /\ ~sockOpen'[c]
        /\ (state[c] \notin PublisherStates
              /\ state'[c] \in PublisherStates) =>
                 /\ Handled(c)
                 /\ res'[c].method = "ANNOUNCE"
                 /\ res'[c].err = "nil"
        /\ (\E p \in DOMAIN publishers' :
                p \notin DOMAIN publishers /\ publishers'[p] = c) =>
                 /\ Handled(c)
                 /\ res'[c].method = "ANNOUNCE"
                 /\ res'[c].err = "nil"

IsPublisher(c) == c \in clients /\ state[c] \in PublisherStates

\* the run loop of connection c has returned and its close has run
Terminated(c) == pc[c] = "done" /\ c \notin clients /\ ~sockOpen[c]

\* C12: under fair scheduling, when the socket of a publisher is closed, the
\* publisher is eventually removed from publishers and clients, and every
\* connection that was bound to its path has its socket closed, is removed
\* from clients and its run loop has returned.
C12_PublisherGoneClosesAll ==
    \A c \in Clients : \A r \in Clients :
        ( /\ IsPublisher(c)
          /\ ~sockOpen[c]
          /\ r \in clients
          /\ state[r] # "STARTING"
          /\ path[r] = path[c] )
        ~> ( /\ Terminated(c)
             /\ \A p \in DOMAIN publishers : publishers[p] # c
             /\ Terminated(r) )

\* run stands where it reads requests, not in one of the loops that read the
\* socket of a TCP stream as frames or discard what it carries
ReadsRequests(c) == pc[c] \notin {"tcpPlay", "tcpRecord"}

\* errTeardown makes run return without a write, and the deferred close
\* closes the connection
C13_Step ==
    \A c \in Clients :
        /\ (Handled(c) /\ res'[c].method = "TEARDOWN"
              /\ res'[c].err = "teardown") =>
                 /\ pc'[c] = "close"
                 /\ Unchanged(c)
        /\ (pc[c] = "close" /\ pc'[c] # "close") =>
              /\ pc'[c] = "done"
              /\ c \notin clients'
              /\ ~sockOpen'[c]
        /\ pc[c] = "done" => pc'[c] = "done"

Bound(c) == state[c] # "STARTING"

\* C14: once the path of a connection has been bound, by a successful
\* ANNOUNCE or by the first successful SETUP of a reader, the path field does
\* not change any more, and every later SETUP, PLAY, PAUSE or RECORD whose
\* URL yields another path is refused: answered 400, and the connection
\* closed.
C14_PathFixedOnceBound ==
    /\ [](\A c \in Clients :
             LET want(r) ==
                     /\ Bound(c)
                     /\ r.method \in {"SETUP", "PLAY", "PAUSE", "RECORD"}
                     /\ ExtractPath(r.urPath) # path[c]
                 then(r, o) == Refused(c, o)
             IN  ForEveryRequest(c, want, then))
    /\ [][\A c \in Clients :
             /\ Bound(c) => path'[c] = path[c]
             /\ (Handled(c) /\ res'[c].err = "generic") =>
                    pc'[c] = "write400"
             /\ pc[c] = "write400" => pc'[c] \in {"write400", "close"}]_vars

\* C15: a request whose URL yields the empty path is refused as malformed: it
\* binds no path, installs no entry of publishers under the empty path and
\* appends no track.
C15_EmptyPathRejected ==
    /\ NoPath \notin DOMAIN publishers
    /\ \A c \in Clients :
           LET want(r) ==
                   /\ r.cseq
                   /\ r.method \in {"DESCRIBE", "ANNOUNCE", "SETUP", "PLAY",
                                    "PAUSE", "RECORD"}
                   /\ ExtractPath(r.urPath) = NoPath
               then(r, o) == Refused(c, o)
           IN  ForEveryRequest(c, want, then)

\* the states in which handleRequest goes on with a request of method m
LegalStates(m) ==
    CASE m = "DESCRIBE" -> {"STARTING"}
      [] m = "ANNOUNCE" -> {"STARTING"}
      [] m = "SETUP"    -> {"STARTING", "PRE_PLAY", "ANNOUNCE", "PRE_RECORD"}
      [] m = "PLAY"     -> {"PRE_PLAY"}
      [] m = "PAUSE"    -> {"PLAY"}
      [] m = "RECORD"   -> {"PRE_RECORD"}

\* the arrows of the state diagram, each with the method that takes it
Diagram ==
    { <<"STARTING", "ANNOUNCE", "ANNOUNCE">>,
      <<"ANNOUNCE", "PRE_RECORD", "SETUP">>,
      <<"STARTING", "PRE_PLAY", "SETUP">>,
      <<"PRE_PLAY", "PLAY", "PLAY">>,
      <<"PLAY", "PRE_PLAY", "PAUSE">>,
      <<"PRE_RECORD", "RECORD", "RECORD">> }

\* a request in a state where its method is not legal is refused
C16_Handle ==
    \A c \in Clients :
        LET want(r) ==
                /\ r.method \in {"DESCRIBE", "ANNOUNCE", "SETUP", "PLAY",
                                 "PAUSE", "RECORD"}
                /\ state[c] \notin LegalStates(r.method)
            then(r, o) == Refused(c, o)
        IN  ForEveryRequest(c, want, then)

\* every change of a state is an arrow of the diagram, taken for a request of
\* the arrow's method: by handleRequest, or by run after the response for
\* PLAY and RECORD; a SETUP leads to PRE_RECORD only with mode=record; a
\* refused request leads to the close of the connection
C16_Step ==
    \A c \in Clients :
        /\ state'[c] # state[c] =>
              /\ \E m \in {"ANNOUNCE", "SETUP", "PLAY", "PAUSE", "RECORD"} :
                    /\ <<state[c], state'[c], m>> \in Diagram
                    /\ \/ Handled(c) /\ res'[c].method = m
                                     /\ m \in {"ANNOUNCE", "SETUP", "PAUSE"}
                       \/ pc[c] = "setPlay" /\ m = "PLAY"
                       \/ pc[c] = "setRecord" /\ m = "RECORD"
        /\ (pc'[c] = "setPlay" /\ pc[c] # "setPlay") => pc[c] = "writePlay"
        /\ (pc'[c] = "setRecord" /\ pc[c] # "setRecord") =>
              pc[c] = "writeRecord"
        /\ (pc'[c] = "writePlay" /\ pc[c] # "writePlay") =>
              Handled(c) /\ res'[c].method = "PLAY"
        /\ (pc'[c] = "writeRecord" /\ pc[c] # "writeRecord") =>
              Handled(c) /\ res'[c].method = "RECORD"
        /\ (Handled(c) /\ res'[c].err = "generic") => pc'[c] = "write400"
        /\ pc[c] = "write400" => pc'[c] \in {"write400", "close"}
        /\ (pc[c] = "close" /\ pc'[c] # "close") =>
              pc'[c] = "done" /\ c \notin clients' /\ ~sockOpen'[c]
        /\ pc[c] = "done" => pc'[c] = "done" /\ state'[c] = state[c]
        /\ state[c] \in ReaderStates => state'[c] \in ReaderStates
        /\ state[c] \in PublisherStates => state'[c] \in PublisherStates

\* handleRequest takes a SETUP to PRE_RECORD only with mode=record
C16_RecordMode ==
    \A c \in Clients :
        LET want(r) == r.method = "SETUP"
            then(r, o) ==
                (o.err = "nil" /\ o.state = "PRE_RECORD") =>
                    /\ state[c] \in {"ANNOUNCE", "PRE_RECORD"}
                    /\ Str_mode_record \in newTransportHeader(r.transport)
        IN  ForEveryRequest(c, want, then)

\* C16: every change of a connection's state follows the state diagram:
\* STARTING to ANNOUNCE by ANNOUNCE, ANNOUNCE or PRE_RECORD to PRE_RECORD by
\* SETUP with mode=record, STARTING or PRE_PLAY to PRE_PLAY by SETUP,
\* PRE_PLAY to PLAY by PLAY, PLAY to PRE_PLAY by PAUSE, PRE_RECORD to RECORD
\* by RECORD, and any state to closed; a DESCRIBE, ANNOUNCE, SETUP, PLAY,
\* PAUSE or RECORD in a state where it is not legal changes no state and
\* closes the connection; no publisher state is reached from a reader state
\* and no reader state from a publisher state.
C16_StateDiagram ==
    /\ [](\A c \in Clients : pc[c] = "new" => state[c] = "STARTING")
    /\ []C16_Handle
    /\ []C16_RecordMode
    /\ [][C16_Step]_vars

\* a publisher in RECORD has sent PAUSE, which was refused, and its reader
\* has gone from PLAY back to PRE_PLAY by PAUSE
C16_Witness ==
    \E c \in clients : \E d \in clients \ {c} :
        /\ pc[c] = "write400"
        /\ res[c].method = "PAUSE"
        /\ res[c].cseq
        /\ state[c] = "RECORD"
        /\ pc[d] = "write"
        /\ res[d].method = "PAUSE"
        /\ state[d] = "PRE_PLAY"
        /\ playAcked[d]

\* the step is taken by a goroutine that makes its writes with the mutex held
StepHoldsMutex ==
    \E d \in Clients : pc[d] \in LockedPositions /\ pc'[d] # pc[d]

\* the step writes one of the fields of connection c that other tasks see
WritesShared(c) ==
    \/ state'[c] # state[c]
    \/ path'[c] # path[c]
    \/ streamProtocol'[c] # streamProtocol[c]
    \/ streamTracks'[c] # streamTracks[c]
    \/ streamSdp'[c] # streamSdp[c]
    \/ ip'[c] # ip[c]

\* C17: every write to the registry (publishers, clients) and every write to
\* the shared fields (state, path, streamProtocol, streamTracks, peerIp,
\* streamSdpText/Parsed) of a connection that is in clients is made with the
\* writer lock held.
C17_WritesUnderLock ==
    [][ /\ (clients' # clients \/ publishers' # publishers) => StepHoldsMutex
        /\ \A c \in clients : WritesShared(c) => StepHoldsMutex ]_vars

\* the interleaved value that names the channels of track k
ChannelsOf(k) ==
    FormatPair(trackToInterleavedChannel(k, TRACK_FLOW_RTP),
               trackToInterleavedChannel(k, TRACK_FLOW_RTCP))

\* a TCP SETUP of a publisher with k tracks succeeds only with the
\* interleaved value 2k-(2k+1), and then appends track k; without that value
\* it is refused
C18_Handle ==
    \A c \in Clients :
        LET k == Len(streamTracks[c])
            want(r) == r.method = "SETUP" /\ r.hasTransport
            then(r, o) ==
                LET th == newTransportHeader(r.transport)
                    proposed == getKeyValue(th, Str_interleaved)
                IN  /\ ( /\ o.err = "nil"
                         /\ o.state = "PRE_RECORD"
                         /\ o.proto = STREAM_PROTOCOL_TCP ) =>
                            /\ ChannelsOf(k) \in proposed
                            /\ ChannelsOf(k) = FormatPair(2 * k, 2 * k + 1)
                            /\ Len(o.tracks) = k + 1
                    /\ ( /\ state[c] \in {"ANNOUNCE", "PRE_RECORD"}
                         /\ AsksTcp(th)
                         /\ ChannelsOf(k) \notin proposed ) =>
                            Refused(c, o)
        IN  ForEveryRequest(c, want, then)

\* the frame loop of a TCP publisher takes channels 2i and 2i+1 for the RTP
\* and the RTCP flow of its track i
C18_Bound ==
    \A c \in Clients :
        (state[c] \in PublisherStates
            /\ streamProtocol[c] = STREAM_PROTOCOL_TCP) =>
                \A i \in 0..(Len(streamTracks[c]) - 1) :
                    /\ interleavedChannelToTrack(2 * i)
                          = [id |-> i, flow |-> TRACK_FLOW_RTP]
                    /\ interleavedChannelToTrack(2 * i + 1)
                          = [id |-> i, flow |-> TRACK_FLOW_RTCP]

\* C18: the TCP SETUP of a publisher for its k-th track (k tracks set up so
\* far) succeeds only if the proposed interleaved value is 2k-(2k+1); any
\* other value is refused and appends no track; so track i of a TCP
\* publisher is bound to the channels 2i (RTP) and 2i+1 (RTCP).
C18_InterleavedChannels ==
    C18_Handle /\ C18_Bound

\* a TCP publisher with two tracks reads frames, and another publisher with
\* one TCP track has sent a further SETUP, which was refused
C18_Witness ==
    \E c \in clients : \E d \in clients \ {c} :
        /\ pc[c] = "tcpRecord"
        /\ Len(streamTracks[c]) = 2
        /\ pc[d] = "write400"
        /\ res[d].method = "SETUP"
        /\ res[d].cseq
        /\ state[d] = "PRE_RECORD"
        /\ streamProtocol[d] = STREAM_PROTOCOL_TCP
        /\ Len(streamTracks[d]) = 1

\* the call of forwardTrack that a frame on channel ch of publisher c asks for
ForwardOf(c, ch) ==
    [path |-> path[c],
     id   |-> ch \div 2,
     flow |-> IF ch % 2 = 0 THEN TRACK_FLOW_RTP ELSE TRACK_FLOW_RTCP]

\* the recorded frames of c that name one of its tracks
ValidFrames(c) ==
    SelectSeq(frames[c], LAMBDA ch : ch \div 2 < Len(streamTracks[c]))

\* the recorded calls are those of the recorded frames, one for each, in the
\* order of the reads; only the last recorded frame can name no track, and
\* then the loop has returned
C19_Log ==
    \A c \in Clients :
        /\ Len(forwards[c]) = Len(ValidFrames(c))
        /\ \A i \in 1..Len(forwards[c]) :
              forwards[c][i] = ForwardOf(c, ValidFrames(c)[i])
        /\ \A i \in 1..Len(frames[c]) :
              frames[c][i] \div 2 >= Len(streamTracks[c]) =>
                  /\ i = Len(frames[c])
                  /\ pc[c] \in {"close", "done"}
        /\ frames[c] # <<>> =>
              /\ state[c] = "RECORD"
              /\ streamProtocol[c] = STREAM_PROTOCOL_TCP

\* a read of a frame makes one call, or none and returns; nothing else makes
\* a call
C19_Step ==
    \A c \in Clients :
        /\ frames'[c] # frames[c] =>
              /\ pc[c] = "tcpRecord"
              /\ Len(frames'[c]) = Len(frames[c]) + 1
              /\ SubSeq(frames'[c], 1, Len(frames[c])) = frames[c]
              /\ LET ch == frames'[c][Len(frames'[c])] IN
                 IF ch \div 2 < Len(streamTracks[c])
                 THEN /\ forwards'[c] = Append(forwards[c], ForwardOf(c, ch))
                      /\ pc'[c] = "tcpRecord"
                 ELSE /\ forwards'[c] = forwards[c]
                      /\ pc'[c] = "close"
        /\ (frames'[c] = frames[c] /\ Len(frames[c]) < MaxFrames) =>
              forwards'[c] = forwards[c]
        /\ (pc[c] = "close" /\ pc'[c] # "close") =>
              pc'[c] = "done" /\ c \notin clients' /\ ~sockOpen'[c]

\* C19: for a publisher in RECORD over TCP, every frame received on channel
\* ch is forwarded exactly once, with track index ch div 2 and flow RTP if
\* ch is even, RTCP if odd, provided ch div 2 < len(streamTracks); a frame
\* whose track index is not below len(streamTracks) is not forwarded and
\* closes the connection; frames are forwarded in the order of the reads.
C19_FramesForwardedInOrder ==
    /\ []C19_Log
    /\ [][C19_Step]_vars

\* a TCP publisher with two tracks has forwarded two frames, of different
\* tracks and flows, and has returned on a third, which named no track
C19_Witness ==
    \E c \in Clients :
        /\ pc[c] = "close"
        /\ Len(streamTracks[c]) = 2
        /\ Len(frames[c]) = 3
        /\ Len(forwards[c]) = 2
        /\ forwards[c][1].id # forwards[c][2].id
        /\ forwards[c][1].flow # forwards[c][2].flow
        /\ frames[c][3] = MaxChannel

\* a request without a CSeq is refused unless it is an OPTIONS, which is
\* answered 200 with or without one
C20_Handle ==
    \A c \in Clients :
        LET want(r) == TRUE
            then(r, o) ==
                /\ (~r.cseq /\ r.method # "OPTIONS") => Refused(c, o)
                /\ r.method = "OPTIONS" =>
                      o.err = "nil" /\ o.code = 200 /\ Untouched(c, o)
                /\ o.err = "generic" => Untouched(c, o)
        IN  ForEveryRequest(c, want, then)

\* a refused request gets one 400 response, with the CSeq of the request when
\* it has one; then run returns, handles no further request and closes
C20_Step ==
    \A c \in Clients :
        /\ (Handled(c) /\ res'[c].err = "generic") => pc'[c] = "write400"
        /\ (pc'[c] = "write400" /\ pc[c] # "write400") =>
              Handled(c) /\ res'[c].err = "generic" /\ res'[c].code = 0
        /\ pc[c] = "write400" =>
              \/ pc'[c] = "write400" /\ res'[c] = res[c]
              \/ pc'[c] = "close"
        /\ (pc[c] = "close" /\ pc'[c] # "close") =>
              pc'[c] = "done" /\ c \notin clients' /\ ~sockOpen'[c]
        /\ pc[c] = "done" => pc'[c] = "done"

\* C20: every request refused as a protocol error gets exactly one 400 Bad
\* Request response, which carries the CSeq of the request when it has one;
\* after it the connection handles no further request and is closed; a
\* missing CSeq is a protocol error for every method but OPTIONS.
C20_ProtocolErrors ==
    /\ []C20_Handle
    /\ [][C20_Step]_vars

\* ------------------------------------------------------------------- C21

\* connection c was deleted from clients while its run has yet to return:
\* the close of another connection closed it
ClosedByCascade(c) == c \notin clients /\ pc[c] \notin {"new", "done"}

\* for a connection that was accepted, a second close leaves the registry
\* as the first close left it, and a close of a connection that is not in
\* clients leaves the registry as it is
C21_Twice ==
    \A c \in Clients :
        pc[c] # "new" =>
            /\ close(c, close(c, Registry)) = close(c, Registry)
            /\ c \notin clients => close(c, Registry) = Registry

\* the deferred close of a connection that was already closed changes
\* neither clients, nor publishers, nor a socket, nor a field of a connection
C21_Step ==
    \A c \in Clients :
        (ClosedByCascade(c) /\ pc[c] = "close" /\ pc'[c] = "done") =>
            /\ clients' = clients
            /\ publishers' = publishers
            /\ sockOpen' = sockOpen
            /\ connVars' = connVars

\* C21: close is idempotent: a close of a connection that was already
\* closed, by its own run or by the close of a publisher in another run,
\* changes nothing in clients, in publishers or in another connection; the
\* deferred close of a reader that a publisher's close has closed does not
\* remove the publisher that has claimed the path since
C21_CloseIdempotent ==
    /\ []C21_Twice
    /\ [][C21_Step]_vars

\* a reader closed by the close of its publisher is about to run its own
\* deferred close while another connection publishes on its path
C21_Witness ==
    \E c \in Clients :
        /\ ClosedByCascade(c)
        /\ pc[c] = "close"
        /\ state[c] \in ReaderStates
        /\ path[c] \in DOMAIN publishers
        /\ publishers[path[c]] # c
        /\ publishers[path[c]] \in clients

\* ------------------------------------------------------------------- C22

\* the deferred close of connection c runs
Closes(c) == pc[c] = "close" /\ pc'[c] = "done"

\* the close of a connection that is not a publisher removes at most the
\* connection itself
C22_Step ==
    \A c \in Clients :
        (Closes(c) /\ state[c] \notin PublisherStates) =>
            /\ publishers' = publishers
            /\ clients' = clients \ {c}
            /\ \A d \in Clients \ {c} : sockOpen'[d] = sockOpen[d]

\* C22: closing a connection that is not the publisher of its path (a
\* reader in any state, a connection in STARTING that is bound to no path,
\* a connection whose ANNOUNCE was rejected) leaves publishers unchanged and
\* removes no connection but itself from clients
C22_CloseOfNonPublisher == [][C22_Step]_vars

\* a reader has closed while the publisher of its path is still connected
C22_Witness ==
    \E c \in Clients :
        /\ pc[c] = "done"
        /\ state[c] \in ReaderStates
        /\ path[c] \in DOMAIN publishers
        /\ publishers[path[c]] \in clients \ {c}

\* ------------------------------------------------------------------- C23

\* connection c was accepted and has been removed from clients since
Removed(c) == pc[c] # "new" /\ c \notin clients

\* the paths on which connection c is the publisher in registry pubs
PublishedBy(c, pubs) == {p \in DOMAIN pubs : pubs[p] = c}

\* no step adds a removed connection to clients or makes it the publisher
\* of a path
C23_Step ==
    \A c \in Clients :
        Removed(c) =>
            /\ c \notin clients'
            /\ PublishedBy(c, publishers') \subseteq PublishedBy(c, publishers)

\* C23: once a connection has been removed from clients it never re-enters
\* the registry: whatever the interleaving, a request read before the close
\* of a publisher closed the connection and handled afterwards included, a
\* closed connection is never added back to clients and never installed as
\* publishers[p] for a path p
C23_NoReentry == [][C23_Step]_vars

\* a connection has read a request, the close of its publisher has removed
\* it from clients, and the request is about to be handled
C23_Witness ==
    \E c \in Clients :
        /\ ClosedByCascade(c)
        /\ pc[c] = "handle"
        /\ path[c] \notin DOMAIN publishers

====
